---- MODULE Spec2Model ----
(***************************************************************************)
(* A model of app.py: the seed block that runs at process start, the       *)
(* contact-submission handler with its best-effort e-mail notification,    *)
(* and the read-only handlers, over the three tables of the store.         *)
(*                                                                         *)
(* Text that the code trims, splits or parses is a sequence of one-        *)
(* character strings; text that the code only passes along is a string.    *)
(* Python's None is the value None (for text) or Unset (for an environment *)
(* variable or a header that is not there).                                *)
(***************************************************************************)
EXTENDS Integers, Sequences, FiniteSets, TLC

VARIABLES
    pc,               \* "down": the process is not running; "up": it serves requests
    project,          \* the Project table, in insertion order
    testimonial,      \* the Testimonial table, in insertion order
    contact_message,  \* the ContactMessage table, in insertion order
    now,              \* the store's clock (datetime.utcnow), a logical time
    last,             \* history: the operation that ran last, its inputs and its outcome
    before            \* history: the tables and the clock as that operation found them

vars == <<pc, project, testimonial, contact_message, now, last, before>>

----------------------------------------------------------------------------
(* Bounds of the model *)

\* the ContactMessage table holds at most this many rows
MaxMessages == 2

----------------------------------------------------------------------------
(* Python values *)

None == <<"None">>
Unset == "None"
Whitespace == {" ", "\t", "\n"}

\* Python truthiness of an optional text: None and '' are falsy
Truthy(v) == v # None /\ v # <<>>

RECURSIVE lstrip(_)
lstrip(s) == IF s # <<>> /\ Head(s) \in Whitespace THEN lstrip(Tail(s)) ELSE s

RECURSIVE rstrip(_)
rstrip(s) ==
    IF s # <<>> /\ s[Len(s)] \in Whitespace THEN rstrip(SubSeq(s, 1, Len(s) - 1)) ELSE s

\* str.strip()
strip(s) == rstrip(lstrip(s))

RECURSIVE join(_, _)
\* sep.join(parts), for strings
join(sep, parts) ==
    IF parts = <<>> THEN ""
    ELSE IF Len(parts) = 1 THEN parts[1]
    ELSE parts[1] \o sep \o join(sep, Tail(parts))

RECURSIVE split(_, _)
\* str.split(sep) of a non-empty text: the pieces between the separators
split(s, sep) ==
    IF \A i \in 1..Len(s) : s[i] # sep THEN <<s>>
    ELSE LET k == CHOOSE i \in 1..Len(s) : s[i] = sep /\ \A j \in 1..(i - 1) : s[j] # sep
         IN <<SubSeq(s, 1, k - 1)>> \o split(SubSeq(s, k + 1, Len(s)), sep)

DigitValue ==
    [c \in {"0", "1", "2", "3", "4", "5", "6", "7", "8", "9"} |->
        CASE c = "0" -> 0 [] c = "1" -> 1 [] c = "2" -> 2 [] c = "3" -> 3 [] c = "4" -> 4
          [] c = "5" -> 5 [] c = "6" -> 6 [] c = "7" -> 7 [] c = "8" -> 8 [] c = "9" -> 9]

\* whether int(s) returns (TRUE) or raises ValueError (FALSE), for unsigned text
int_parses(s) == s # <<>> /\ \A i \in 1..Len(s) : s[i] \in DOMAIN DigitValue

RECURSIVE int(_)
int(s) == IF s = <<>> THEN 0 ELSE 10 * int(SubSeq(s, 1, Len(s) - 1)) + DigitValue[s[Len(s)]]

----------------------------------------------------------------------------
(* The store *)

ContactMessage(id, first, last_, email, phone, message, created_at) ==
    [id |-> id, first |-> first, last |-> last_, email |-> email, phone |-> phone,
     message |-> message, created_at |-> created_at]

Project(id, title, category, description, tags, img, created_at) ==
    [id |-> id, title |-> title, category |-> category, description |-> description,
     tags |-> tags, img |-> img, created_at |-> created_at]

Testimonial(id, author, role, text, rating, created_at) ==
    [id |-> id, author |-> author, role |-> role, text |-> text, rating |-> rating,
     created_at |-> created_at]

\* the primary key the store gives a new row: one more than the largest in the table
next_id(table) ==
    IF table = <<>> THEN 1
    ELSE 1 + (CHOOSE m \in {table[i].id : i \in 1..Len(table)} :
                \A i \in 1..Len(table) : table[i].id <= m)

RECURSIVE order_by_created_at_desc(_)
\* query.order_by(created_at.desc()).all()
order_by_created_at_desc(table) ==
    IF table = <<>> THEN <<>>
    ELSE LET k == CHOOSE i \in 1..Len(table) :
                    /\ \A j \in 1..Len(table) : table[j].created_at <= table[i].created_at
                    /\ \A j \in 1..(i - 1) : table[j].created_at < table[i].created_at
             rest == [j \in 1..(Len(table) - 1) |-> IF j < k THEN table[j] ELSE table[j + 1]]
         IN <<table[k]>> \o order_by_created_at_desc(rest)

\* query.limit(n)
limit(rows, n) == SubSeq(rows, 1, IF Len(rows) < n THEN Len(rows) ELSE n)

Store == [project |-> project, testimonial |-> testimonial,
          contact_message |-> contact_message, now |-> now]

----------------------------------------------------------------------------
(* Initialize DB + seed data *)

SeedProject(id, created_at) ==
    Project(id, "Analytics Platform", "Web Application",
            "Real-time data visualization with AI insights.",
            <<"React", ",", "AI", ",", "Analytics">>,
            "https://picsum.photos/seed/p1/1200/800", created_at)

SeedTestimonial(id, created_at) ==
    Testimonial(id, "Sarah Johnson", "CEO, TechVentures",
                "InnovateTech transformed our digital presence completely.", 5, created_at)

\* if Project.query.count() == 0: db.session.add(p)
seed_projects(table, created_at) ==
    IF Len(table) = 0 THEN Append(table, SeedProject(next_id(table), created_at)) ELSE table

\* mutant of seed_testimonials: the sample row is added without the count check
seed_testimonials_unconditional(table, created_at) ==
    Append(table, SeedTestimonial(next_id(table), created_at))

\* if Testimonial.query.count() == 0: db.session.add(t)
seed_testimonials(table, created_at) ==
    IF Len(table) = 0 THEN Append(table, SeedTestimonial(next_id(table), created_at))
    ELSE table

----------------------------------------------------------------------------
(* Responses.  ok, errors and message are the members of a JSON body, data  *)
(* is a JSON array or a template's context, flashed is what flash() queued  *)
(* in the client's session, as <<message, category>> pairs.                 *)

Response(status, mimetype, ok, errors, message, location, flashed, data) ==
    [status |-> status, mimetype |-> mimetype, ok |-> ok, errors |-> errors,
     message |-> message, location |-> location, flashed |-> flashed, data |-> data]

\* return jsonify({"ok": ..., "errors": [...] / "message": ...}), status
jsonify(ok, errors, message, status) ==
    Response(status, "application/json", ok, errors, message, "", <<>>, <<>>)

\* flash(message, category); return redirect(url_for('index') + "#contact")
flash_and_redirect(message, category) ==
    Response(302, "text/html", FALSE, <<>>, "", "/#contact", <<<<message, category>>>>, <<>>)

\* what Flask answers when an exception escapes a handler
internal_server_error == Response(500, "text/html", FALSE, <<>>, "", "", <<>>, <<>>)

\* the acknowledgement, its dash written as a hyphen
Thanks == "Thanks - your message was received!"

----------------------------------------------------------------------------
(* What a request meets outside the program: whether the store accepts the  *)
(* insert (db_ok), the process environment, and the mail server's answer     *)
(* (smtp: "ok", or "error" for any exception of the SMTP session).  Each     *)
(* run reports in reads which of them it consulted.                          *)

WorldNames == {"db_ok", "ADMIN_EMAIL", "FROM_EMAIL", "SMTP_HOST", "SMTP_PORT", "smtp"}

----------------------------------------------------------------------------
(* Email helper *)

DefaultSmtpPort == 587

\* send_email_notification(subject, body, to_email) in the world w.  ret is the
\* returned value, raised whether an exception left the function, sent the
\* messages handed to the mail server.
send_email_notification(subject, body, to_email, w) ==
    IF w.SMTP_HOST = Unset
    THEN [ret |-> FALSE, raised |-> FALSE, sent |-> <<>>, reads |-> {"SMTP_HOST"},
          log |-> <<"SMTP not configured; skipping email.">>]
    ELSE IF w.SMTP_PORT # None /\ ~int_parses(w.SMTP_PORT)
    THEN [ret |-> FALSE, raised |-> TRUE, sent |-> <<>>, log |-> <<>>,
          reads |-> {"SMTP_HOST", "SMTP_PORT"}]
    ELSE LET port == IF w.SMTP_PORT = None THEN DefaultSmtpPort ELSE int(w.SMTP_PORT)
             msg == [Subject |-> subject, From |-> w.FROM_EMAIL, To |-> to_email,
                     content |-> body]
             reads == {"SMTP_HOST", "SMTP_PORT", "FROM_EMAIL", "smtp"}
         IN IF w.smtp = "ok"
            THEN [ret |-> TRUE, raised |-> FALSE, log |-> <<>>, reads |-> reads,
                  sent |-> <<[host |-> w.SMTP_HOST, port |-> port, msg |-> msg]>>]
            ELSE [ret |-> FALSE, raised |-> FALSE, sent |-> <<>>, reads |-> reads,
                  log |-> <<"Email failed">>]

----------------------------------------------------------------------------
(* POST /contact *)

Fields == {"first", "last", "email", "phone", "message"}

\* is_ajax = request.headers.get("X-Requested-With") == "XMLHttpRequest"
is_ajax(req) == req.x_requested_with = "XMLHttpRequest"

\* mutant of request_data: the form is read whatever the encoding
request_data_form_only(req) == req.form

\* data = request.get_json() if request.is_json else request.form.
\* A payload maps each field to its text, or to None when it has no such key
\* (or, in JSON, null); the payload of no keys is the {} that "or {}" gives.
request_data(req) == IF req.is_json THEN req.json ELSE req.form

\* mutant of field: the value is stored as submitted, strip() forgotten
field_unstripped(data, k) == IF Truthy(data[k]) THEN data[k] ELSE <<>>

\* (data.get(k) or '').strip()
field(data, k) == strip(IF Truthy(data[k]) THEN data[k] ELSE <<>>)

\* mutant of validate: the rule on the message is missing
validate_email_only(email, message) ==
    IF email = <<>> THEN <<"Email is required.">> ELSE <<>>

\* mutant of validate: the second rule is an elif of the first
validate_first_violation(email, message) ==
    IF email = <<>> THEN <<"Email is required.">>
    ELSE IF message = <<>> THEN <<"Message is required.">> ELSE <<>>

\* the two presence rules, each checked on its own
validate(email, message) ==
    (IF email = <<>> THEN <<"Email is required.">> ELSE <<>>)
    \o (IF message = <<>> THEN <<"Message is required.">> ELSE <<>>)

\* if errors: ...
validation_response(ajax, json, errors) ==
    IF ajax \/ json THEN jsonify(FALSE, errors, "", 400)
    ELSE flash_and_redirect(join(" ", errors), "error")

\* except Exception: ... of the save
save_failed_response(ajax, json) ==
    IF ajax THEN jsonify(FALSE, <<"Server error saving message.">>, "", 500)
    ELSE flash_and_redirect("Server error saving message.", "error")

\* mutant of success_response: only the header is consulted
success_response_header_only(ajax, json) ==
    IF ajax THEN jsonify(TRUE, <<>>, Thanks, 200)
    ELSE flash_and_redirect(Thanks, "success")

\* the final success response
success_response(ajax, json) ==
    IF ajax \/ json THEN jsonify(TRUE, <<>>, Thanks, 200)
    ELSE flash_and_redirect(Thanks, "success")

\* mutant of admin_email: no fallback to FROM_EMAIL
admin_email_no_fallback(w) == w.ADMIN_EMAIL

\* admin_email = os.environ.get('ADMIN_EMAIL') or os.environ.get('FROM_EMAIL')
admin_email(w) == IF w.ADMIN_EMAIL # Unset THEN w.ADMIN_EMAIL ELSE w.FROM_EMAIL

\* f"New contact: {first} {last}".strip()
subject_of(first, last_) == strip(<<"New contact:", " ">> \o first \o <<" ">> \o last_)

\* f"From: {first} {last}\nEmail: {email}\nPhone: {phone}\n\nMessage:\n{message}"
body_of(first, last_, email, phone, message) ==
    <<"From:", " ">> \o first \o <<" ">> \o last_ \o <<"\n", "Email:", " ">> \o email
    \o <<"\n", "Phone:", " ">> \o phone \o <<"\n", "\n", "Message:", "\n">> \o message

\* mutant of notification: no except clause around the call
notification_uncaught(first, last_, email, phone, message, w) ==
    LET to == admin_email(w)
        r == send_email_notification(subject_of(first, last_),
                                     body_of(first, last_, email, phone, message), to, w)
        reads == {"ADMIN_EMAIL"} \cup (IF w.ADMIN_EMAIL = Unset THEN {"FROM_EMAIL"} ELSE {})
    IN IF to = Unset
       THEN [calls |-> <<>>, sent |-> <<>>, raised |-> FALSE, trace |-> <<>>,
             log |-> <<>>, reads |-> reads]
       ELSE [calls |-> <<to>>, sent |-> r.sent, raised |-> r.raised,
             trace |-> <<"send_email_notification">>, reads |-> reads \cup r.reads,
             log |-> r.log]

\* the try block around the notification: calls holds the recipient of each call
\* of send_email_notification, raised whether an exception leaves the block
notification(first, last_, email, phone, message, w) ==
    LET to == admin_email(w)
        r == send_email_notification(subject_of(first, last_),
                                     body_of(first, last_, email, phone, message), to, w)
        reads == {"ADMIN_EMAIL"} \cup (IF w.ADMIN_EMAIL = Unset THEN {"FROM_EMAIL"} ELSE {})
    IN IF to = Unset
       THEN [calls |-> <<>>, sent |-> <<>>, raised |-> FALSE, trace |-> <<>>,
             log |-> <<>>, reads |-> reads]
       ELSE [calls |-> <<to>>, sent |-> r.sent, raised |-> FALSE,
             trace |-> <<"send_email_notification">>, reads |-> reads \cup r.reads,
             log |-> IF r.raised THEN <<"Email notification failed">> ELSE r.log]

\* the handler: what it answers and what it leaves in the ContactMessage table,
\* for the request req, the table rows and the clock at, in the world w
contact_result(req, rows, at, w) ==
    LET ajax == is_ajax(req)
        data == request_data(req)
        first == field(data, "first")
        last_ == field(data, "last")
        email == field(data, "email")
        phone == field(data, "phone")
        message == field(data, "message")
        errors == validate(email, message)
        cm == ContactMessage(next_id(rows), first, last_, email, phone, message, at)
        n == notification(first, last_, email, phone, message, w)
    IN IF errors # <<>>
       THEN [resp |-> validation_response(ajax, req.is_json, errors), rows |-> rows,
             errors |-> errors, trace |-> <<>>, calls |-> <<>>, sent |-> <<>>,
             log |-> <<>>, raised |-> FALSE, reads |-> {}]
       ELSE IF ~w.db_ok
       THEN [resp |-> save_failed_response(ajax, req.is_json), rows |-> rows,
             errors |-> errors, trace |-> <<"add", "commit failed">>, calls |-> <<>>,
             sent |-> <<>>, log |-> <<"DB save failed">>, raised |-> FALSE,
             reads |-> {"db_ok"}]
       ELSE [resp |-> IF n.raised THEN internal_server_error
                      ELSE success_response(ajax, req.is_json),
             rows |-> Append(rows, cm), errors |-> errors,
             trace |-> <<"add", "commit">> \o n.trace, calls |-> n.calls,
             sent |-> n.sent, log |-> n.log, raised |-> n.raised,
             reads |-> {"db_ok"} \cup n.reads]

----------------------------------------------------------------------------
(* The read-only handlers *)

\* index(): the six newest projects and testimonials, handed to the template
index_result(projects, testimonials) ==
    Response(200, "text/html", FALSE, <<>>, "", "", <<>>,
             [projects |-> limit(order_by_created_at_desc(projects), 6),
              testimonials |-> limit(order_by_created_at_desc(testimonials), 6)])

\* api_projects()
api_projects_result(projects) ==
    LET ps == order_by_created_at_desc(projects)
    IN Response(200, "application/json", FALSE, <<>>, "", "", <<>>,
                [i \in 1..Len(ps) |->
                    [id |-> ps[i].id, title |-> ps[i].title, category |-> ps[i].category,
                     description |-> ps[i].description,
                     tags |-> IF Truthy(ps[i].tags) THEN split(ps[i].tags, ",") ELSE <<>>,
                     img |-> ps[i].img]])

\* api_testimonials()
api_testimonials_result(testimonials) ==
    LET ts == order_by_created_at_desc(testimonials)
    IN Response(200, "application/json", FALSE, <<>>, "", "", <<>>,
                [i \in 1..Len(ts) |->
                    [id |-> ts[i].id, author |-> ts[i].author, role |-> ts[i].role,
                     text |-> ts[i].text, rating |-> ts[i].rating]])

\* api_blogs(): a placeholder
api_blogs_result == Response(200, "application/json", FALSE, <<>>, "", "", <<>>, <<>>)

----------------------------------------------------------------------------
(* The inputs the model draws *)

\* first and last name, drawn together: neither given, or both given
NameValues == {<<None, <<>>>>, <<<<" ", "a">>, <<"b", "\t">>>>}
EmailValues == {None, <<" ">>, <<" ", "e", "\n">>}
PhoneValues == {None, <<"1">>}
MessageValues == {<<>>, <<"\t", " ">>, <<"\n", "m", " ", "m", " ">>}

Payloads ==
    {[k \in Fields |->
        CASE k = "first" -> n[1] [] k = "last" -> n[2] [] k = "email" -> e
          [] k = "phone" -> p [] k = "message" -> m] :
        n \in NameValues, e \in EmailValues, p \in PhoneValues, m \in MessageValues}

NoPayload == [k \in Fields |-> None]

HeaderValues == {Unset, "XMLHttpRequest", "fetch"}

Requests ==
    {[x_requested_with |-> h, is_json |-> TRUE, json |-> d, form |-> NoPayload] :
        h \in HeaderValues, d \in Payloads}
    \cup
    {[x_requested_with |-> h, is_json |-> FALSE, json |-> NoPayload, form |-> d] :
        h \in HeaderValues, d \in Payloads}

Worlds ==
    [db_ok : BOOLEAN,
     ADMIN_EMAIL : {Unset, "admin@example.com"},
     FROM_EMAIL : {Unset, "noreply@example.com"},
     SMTP_HOST : {Unset, "smtp.example.com"},
     SMTP_PORT : {None, <<"2", "5">>, <<"s", "m", "t", "p">>},
     smtp : {"ok", "error"}]

\* the world in which everything works and nothing is configured
QuietWorld ==
    [db_ok |-> TRUE, ADMIN_EMAIL |-> Unset, FROM_EMAIL |-> Unset, SMTP_HOST |-> Unset,
     SMTP_PORT |-> None, smtp |-> "ok"]

\* Each distinct run is drawn once: what a run does not consult is left as in
\* QuietWorld.
ContactInputs ==
    UNION {{<<req, w>> : w \in {v \in Worlds :
                \A n \in WorldNames \ contact_result(req, <<>>, 0, v).reads :
                    v[n] = QuietWorld[n]}} : req \in Requests}

\* rows that were in the store before the program first ran
ExternalProjects ==
    <<Project(1, "Old site", "Web", "", None, "", 1),
      Project(2, "New site", "Web", "", <<"a", ",", ",", "b">>, "", 2)>>

ExternalTestimonials == <<Testimonial(1, "A. Client", "", "Good.", 4, 1)>>

\* the Project and Testimonial tables the program may find at its first start
InitialStores ==
    {<<<<>>, <<>>>>, <<ExternalProjects, <<>>>>, <<<<>>, ExternalTestimonials>>}

NoRequest ==
    [x_requested_with |-> Unset, is_json |-> FALSE, json |-> NoPayload, form |-> NoPayload]

\* the outcome of an operation that is not a contact submission
Outcome(resp) ==
    [resp |-> resp, errors |-> <<>>, trace |-> <<>>, calls |-> <<>>, sent |-> <<>>,
     log |-> <<>>, raised |-> FALSE]

Ran(route, req, w, resp, run) ==
    [route |-> route, req |-> req, world |-> w, resp |-> resp, errors |-> run.errors,
     trace |-> run.trace, calls |-> run.calls, sent |-> run.sent, log |-> run.log,
     raised |-> run.raised]

NoResponse == Response(0, "", FALSE, <<>>, "", "", <<>>, <<>>)

Idle == Ran("idle", NoRequest, QuietWorld, NoResponse, Outcome(NoResponse))

----------------------------------------------------------------------------
(* The state machine *)

Init ==
    /\ pc = "down"
    /\ \E found \in InitialStores :
          /\ project = found[1]
          /\ testimonial = found[2]
    /\ contact_message = <<>>
    /\ now = 3
    /\ last = Idle
    /\ before = Store

\* the process starts: db.create_all(), the seed block, db.session.commit()
boot ==
    /\ pc = "down"
    /\ pc' = "up"
    /\ project' = seed_projects(project, now)
    /\ testimonial' = seed_testimonials(testimonial, now)
    /\ now' = IF project' # project \/ testimonial' # testimonial THEN now + 1 ELSE now
    /\ last' = Ran("boot", NoRequest, QuietWorld, NoResponse, Outcome(NoResponse))
    /\ before' = Store
    /\ UNCHANGED contact_message

\* the process ends; the store stays
stop ==
    /\ pc = "up"
    /\ last = Idle
    /\ pc' = "down"
    /\ UNCHANGED <<project, testimonial, contact_message, now, last, before>>

\* the operation that ran is over, the next one may start
finish ==
    /\ last # Idle
    /\ last' = Idle
    /\ before' = Store
    /\ UNCHANGED <<pc, project, testimonial, contact_message, now>>

Serving == pc = "up" /\ last = Idle

\* GET /
index ==
    /\ Serving
    /\ last' = Ran("index", NoRequest, QuietWorld, index_result(project, testimonial),
                   Outcome(index_result(project, testimonial)))
    /\ before' = Store
    /\ UNCHANGED <<pc, project, testimonial, contact_message, now>>

\* GET /api/projects
api_projects ==
    /\ Serving
    /\ last' = Ran("api_projects", NoRequest, QuietWorld, api_projects_result(project),
                   Outcome(api_projects_result(project)))
    /\ before' = Store
    /\ UNCHANGED <<pc, project, testimonial, contact_message, now>>

\* GET /api/testimonials
api_testimonials ==
    /\ Serving
    /\ last' = Ran("api_testimonials", NoRequest, QuietWorld, api_testimonials_result(testimonial),
                   Outcome(api_testimonials_result(testimonial)))
    /\ before' = Store
    /\ UNCHANGED <<pc, project, testimonial, contact_message, now>>

\* mutant of api_blogs: the placeholder stores a sample row before it answers
api_blogs_seeding ==
    /\ Serving
    /\ project' = Append(project, SeedProject(next_id(project), now))
    /\ last' = Ran("api_blogs", NoRequest, QuietWorld, api_blogs_result,
                   Outcome(api_blogs_result))
    /\ before' = Store
    /\ UNCHANGED <<pc, testimonial, contact_message, now>>

\* GET /api/blogs
api_blogs ==
    /\ Serving
    /\ last' = Ran("api_blogs", NoRequest, QuietWorld, api_blogs_result,
                   Outcome(api_blogs_result))
    /\ before' = Store
    /\ UNCHANGED <<pc, project, testimonial, contact_message, now>>

\* POST /contact
contact ==
    /\ Serving
    /\ \E i \in ContactInputs :
          LET run == contact_result(i[1], contact_message, now, i[2])
          IN /\ Len(run.rows) <= MaxMessages
             /\ contact_message' = run.rows
             /\ now' = IF run.rows # contact_message THEN now + 1 ELSE now
             /\ last' = Ran("contact", i[1], i[2], run.resp, run)
    /\ before' = Store
    /\ UNCHANGED <<pc, project, testimonial>>

Next ==
    \/ boot
    \/ stop
    \/ finish
    \/ index
    \/ contact
    \/ api_projects
    \/ api_testimonials
    \/ api_blogs

Spec == Init /\ [][Next]_vars

----------------------------------------------------------------------------
(* What the properties speak of, stated without the handler's operators *)

\* the body a request carries, whichever its encoding
Submitted(req) == IF req.json # NoPayload THEN req.json ELSE req.form

\* the text of a field, '' when the field is missing
Text(v) == IF v = None THEN <<>> ELSE v

\* t is s without its leading and trailing whitespace
TrimOf(t, s) ==
    /\ t = <<>> \/ (t[1] \notin Whitespace /\ t[Len(t)] \notin Whitespace)
    /\ \E a \in 0..Len(s) :
          /\ a + Len(t) <= Len(s)
          /\ \A i \in 1..Len(s) :
                IF i > a /\ i <= a + Len(t) THEN s[i] = t[i - a] ELSE s[i] \in Whitespace

\* a missing field, or one of whitespace only: its trimmed text is empty
Blank(v) == \A i \in 1..Len(Text(v)) : Text(v)[i] \in Whitespace

ValidSubmission(req) == ~Blank(Submitted(req).email) /\ ~Blank(Submitted(req).message)

\* a programmatic client: the XMLHttpRequest header, or a JSON payload
Programmatic(req) == req.x_requested_with = "XMLHttpRequest" \/ req.is_json

Ids(table) == {table[i].id : i \in 1..Len(table)}

\* table is old with new rows appended, old rows untouched
Extends(table, old) == Len(table) >= Len(old) /\ SubSeq(table, 1, Len(old)) = old

ContactRan == last.route = "contact"

\* the submission passed validation and the store took the insert
Saved == ContactRan /\ ValidSubmission(last.req) /\ last.world.db_ok

----------------------------------------------------------------------------
(* C1 *)

\* C1: a valid submission whose insert does not fail adds exactly one
\* ContactMessage row; its five fields are the submitted values without their
\* leading and trailing whitespace ('' for a missing field), its id is new and
\* its creation time is set.
C1_ValidSubmissionStored ==
    Saved =>
        /\ Len(contact_message) = Len(before.contact_message) + 1
        /\ Extends(contact_message, before.contact_message)
        /\ LET cm == contact_message[Len(contact_message)]
           IN /\ \A k \in Fields : TrimOf(cm[k], Text(Submitted(last.req)[k]))
              /\ cm.id \in Nat \ Ids(before.contact_message)
              /\ cm.created_at \in Nat

\* a JSON submission with untrimmed names and no phone is stored next to an older row
C1_Witness ==
    /\ Saved
    /\ Submitted(last.req).first = <<" ", "a">>
    /\ Submitted(last.req).phone = None
    /\ Len(contact_message) = 2
    /\ contact_message[2].first = <<"a">>
    /\ contact_message[2].phone = <<>>

----------------------------------------------------------------------------
(* C2 *)

\* C2: a submission that fails validation changes no row of the three tables
\* and attempts no notification, whatever the kind of client.
C2_InvalidSubmissionMutatesNothing ==
    (ContactRan /\ ~ValidSubmission(last.req)) =>
        /\ contact_message = before.contact_message
        /\ project = before.project
        /\ testimonial = before.testimonial
        /\ last.trace = <<>>
        /\ last.calls = <<>>
        /\ last.sent = <<>>

\* an interactive client submits an email and a blank message
C2_Witness ==
    /\ ContactRan
    /\ ~Programmatic(last.req)
    /\ ~Blank(Submitted(last.req).email)
    /\ Submitted(last.req).message = <<"\t", " ">>
    /\ last.resp.status = 302
    /\ contact_message # <<>>

----------------------------------------------------------------------------
(* C3 *)

\* C3: the violation list holds "Email is required." exactly when the trimmed
\* email is empty and "Message is required." exactly when the trimmed message
\* is empty, the email's first; a programmatic client is sent that list.
C3_ViolationList ==
    ContactRan =>
        /\ last.errors =
              (IF Blank(Submitted(last.req).email) THEN <<"Email is required.">> ELSE <<>>)
              \o (IF Blank(Submitted(last.req).message) THEN <<"Message is required.">>
                  ELSE <<>>)
        /\ (Programmatic(last.req) /\ last.errors # <<>>) => last.resp.errors = last.errors

\* both are missing while first, last and phone are given: two violations
C3_Witness ==
    /\ ContactRan
    /\ Blank(Submitted(last.req).email)
    /\ Blank(Submitted(last.req).message)
    /\ Submitted(last.req).first = <<" ", "a">>
    /\ Submitted(last.req).phone = <<"1">>
    /\ last.errors = <<"Email is required.", "Message is required.">>
    /\ last.resp.errors = last.errors

----------------------------------------------------------------------------
(* C4 *)

\* the generic answers to a failed save
ServerErrorJson == jsonify(FALSE, <<"Server error saving message.">>, "", 500)
ServerErrorRedirect == flash_and_redirect("Server error saving message.", "error")

\* C4: when the insert fails, every programmatic client (header, or JSON
\* payload) is answered HTTP 500 with ok false and the generic error, and
\* every interactive client is redirected to the contact anchor with the
\* generic error queued.
C4_SaveFailureAnswer ==
    (ContactRan /\ ValidSubmission(last.req) /\ ~last.world.db_ok) =>
        last.resp = IF Programmatic(last.req) THEN ServerErrorJson ELSE ServerErrorRedirect

----------------------------------------------------------------------------
(* C5 *)

\* the same field values, sent by an interactive client
Interactive(req) ==
    [x_requested_with |-> Unset, is_json |-> FALSE, json |-> NoPayload,
     form |-> Submitted(req)]

IsRedirectWithFlash(resp, category) ==
    /\ resp.status = 302
    /\ resp.mimetype # "application/json"
    /\ resp.location = "/#contact"
    /\ Len(resp.flashed) = 1
    /\ resp.flashed[1][2] = category

IsJson(resp, status, ok) ==
    /\ resp.status = status
    /\ resp.mimetype = "application/json"
    /\ resp.ok = ok
    /\ resp.location = ""
    /\ resp.flashed = <<>>

\* C5: on success and on a validation failure the kind of answer depends on
\* the two signals only: with the XMLHttpRequest header or a JSON payload the
\* answer is JSON (200 and ok true, or 400 with ok false and the violation
\* list); otherwise, and for the same field values sent by an interactive
\* client, it is a redirect to the contact anchor with one status queued.
C5_ResponseMode ==
    (ContactRan /\ (~ValidSubmission(last.req) \/ last.world.db_ok)) =>
        LET valid == ValidSubmission(last.req)
            twin == contact_result(Interactive(last.req), before.contact_message,
                                   before.now, last.world).resp
            category == IF valid THEN "success" ELSE "error"
        IN /\ IF Programmatic(last.req)
              THEN IF valid THEN IsJson(last.resp, 200, TRUE) /\ last.resp.message = Thanks
                   ELSE /\ IsJson(last.resp, 400, FALSE)
                        /\ last.resp.errors = last.errors
                        /\ last.errors # <<>>
              ELSE IsRedirectWithFlash(last.resp, category)
           /\ IsRedirectWithFlash(twin, category)

\* a JSON payload without the header succeeds and is answered 200 in JSON
C5_Witness ==
    /\ Saved
    /\ last.req.is_json
    /\ last.req.x_requested_with = Unset
    /\ last.resp.status = 200
    /\ last.resp.ok

----------------------------------------------------------------------------
(* C6 *)

\* C6: once the row is stored, the notification's outcome changes nothing: in
\* every world where the insert succeeds the same request gets the same
\* answer and leaves the same table, and no exception leaves the handler.
C6_NotificationNeverAffectsRequest ==
    Saved =>
        /\ ~last.raised
        /\ last.resp.status \in {200, 302}
        /\ \A w \in Worlds :
              w.db_ok =>
                 LET run == contact_result(last.req, before.contact_message, before.now, w)
                 IN /\ run.resp = last.resp
                    /\ run.rows = contact_message
                    /\ ~run.raised

\* the notifier raised while composing (SMTP_PORT is not a number), and the
\* client got its success answer
C6_Witness ==
    /\ Saved
    /\ last.world.SMTP_HOST # Unset
    /\ last.world.SMTP_PORT = <<"s", "m", "t", "p">>
    /\ last.log = <<"Email notification failed">>
    /\ last.resp.status = 200
    /\ Len(contact_message) = Len(before.contact_message) + 1

----------------------------------------------------------------------------
(* C7 *)

\* how often the handler called the notifier
Attempts == Cardinality({i \in 1..Len(last.trace) : last.trace[i] = "send_email_notification"})

\* each call of the notifier comes after the commit
AfterCommit ==
    \A i \in 1..Len(last.trace) :
        last.trace[i] = "send_email_notification" =>
            \E j \in 1..(i - 1) : last.trace[j] = "commit"

\* C7 as stated: after a successful insert exactly one notification is
\* attempted, to ADMIN_EMAIL or else FROM_EMAIL, after the commit; a failed
\* validation or insert attempts none.
C7_ExactlyOneAttempt ==
    ContactRan =>
        IF Saved
        THEN /\ Attempts = 1
             /\ Len(last.calls) = 1
             /\ AfterCommit
        ELSE Attempts = 0 /\ last.calls = <<>>

\* C7, amended: after a successful insert the handler calls the notifier
\* exactly once when ADMIN_EMAIL or FROM_EMAIL is set, for ADMIN_EMAIL or else
\* FROM_EMAIL, and not at all when neither is set; each call comes after the
\* commit; a failed validation or insert attempts none.
C7_OneAttemptWhenAddressed ==
    ContactRan =>
        IF Saved
        THEN /\ last.calls =
                   IF last.world.ADMIN_EMAIL # Unset THEN <<last.world.ADMIN_EMAIL>>
                   ELSE IF last.world.FROM_EMAIL # Unset THEN <<last.world.FROM_EMAIL>>
                   ELSE <<>>
             /\ Attempts = Len(last.calls)
             /\ AfterCommit
             /\ \A i \in 1..Len(last.sent) : last.sent[i].msg.To = last.calls[1]
        ELSE Attempts = 0 /\ last.calls = <<>> /\ last.sent = <<>>

\* ADMIN_EMAIL is not set: the mail goes to FROM_EMAIL, after the commit
C7_Witness ==
    /\ Saved
    /\ last.world.ADMIN_EMAIL = Unset
    /\ last.calls = <<"noreply@example.com">>
    /\ last.trace = <<"add", "commit", "send_email_notification">>
    /\ Len(last.sent) = 1
    /\ last.sent[1].msg.To = "noreply@example.com"

----------------------------------------------------------------------------
(* C8 *)

\* the same field values in the other encoding, with the header h
OtherEncoding(req, h) ==
    [x_requested_with |-> h, is_json |-> ~req.is_json, json |-> req.form, form |-> req.json]

\* C8: the same field values sent in the other encoding, with or without the
\* header, meet the same violations and leave the same rows.
C8_EncodingDoesNotMatter ==
    ContactRan =>
        \A h \in HeaderValues :
            LET run == contact_result(OtherEncoding(last.req, h), before.contact_message,
                                      before.now, last.world)
            IN /\ run.errors = last.errors
               /\ run.rows = contact_message

\* a JSON submission with values to trim was stored
C8_Witness ==
    /\ Saved
    /\ last.req.is_json
    /\ last.req.json.email = <<" ", "e", "\n">>
    /\ last.req.json.first = <<" ", "a">>
    /\ contact_message[Len(contact_message)].email = <<"e">>
    /\ contact_message[Len(contact_message)].first = <<"a">>

----------------------------------------------------------------------------
(* C9 *)

\* C9: initialization leaves a table that has a row as it is and gives an
\* empty one exactly one row, each table on its own: an empty store ends with
\* one Project and one Testimonial, an initialized store is left unchanged.
C9_SeedOncePerTable ==
    last.route = "boot" =>
        /\ contact_message = before.contact_message
        /\ IF before.project = <<>>
           THEN project = <<SeedProject(1, before.now)>>
           ELSE project = before.project
        /\ IF before.testimonial = <<>>
           THEN testimonial = <<SeedTestimonial(1, before.now)>>
           ELSE testimonial = before.testimonial

\* a restart after a stored submission: the seeded store is found and left alone
C9_Witness ==
    /\ last.route = "boot"
    /\ Len(before.project) = 1
    /\ Len(before.testimonial) = 1
    /\ before.contact_message # <<>>
    /\ project = before.project
    /\ testimonial = before.testimonial

----------------------------------------------------------------------------
(* C10 *)

\* C10: while the process serves, no step changes or removes a row: the
\* Project and Testimonial tables stay as they are, the ContactMessage table
\* keeps its rows and gains at most one, and only POST /contact adds it.
C10_AppendOnly ==
    [][(pc = "up" /\ pc' = "up") =>
          /\ project' = project
          /\ testimonial' = testimonial
          /\ \/ contact_message' = contact_message
             \/ /\ last'.route = "contact"
                /\ Len(contact_message') = Len(contact_message) + 1
                /\ SubSeq(contact_message', 1, Len(contact_message)) = contact_message]_vars

\* a second row was appended behind the first
C10_Witness ==
    /\ ContactRan
    /\ Len(before.contact_message) = 1
    /\ Len(contact_message) = 2
    /\ contact_message[1] = before.contact_message[1]

====
